---- MODULE Spec2Model ----
(***************************************************************************)
(* Voicemail authentication session (lib/auth.js): the machina state       *)
(* machine built by fsm() and the promise facade built by                  *)
(* createAuthenticator(), run on one event loop.  One step of the model is *)
(* one task of the event loop: a facade call, a process.nextTick dispatch, *)
(* a promise continuation of a lookup, or the channel's StasisEnd event.   *)
(***************************************************************************)
EXTENDS Integers, Sequences, FiniteSets, TLC

\* ------------------------------------------------------------------ bounds
\* Facade calls made on one session.
MaxCalls == 3

\* ------------------------------------------------------------------ values
\* The JavaScript value undefined, for objects (context, mailbox, payloads).
Undefined == [undefined |-> TRUE]
\* The JavaScript value undefined, passed as a mailbox number argument.
UndefinedArg == "<undefined>"

Domains == {"", "mydomain.com"}
Numbers == {"", "1234"}
NumberArgs == Numbers \cup {UndefinedArg}
Passwords == {"mypassword", "notmypassword"}

States == {"init", "unknownMailbox", "authenticating", "done"}
Ops == {"init", "setMailbox", "authenticate"}

\* An Error object, identified by its name.
Err(name) == [name |-> name]
\* What a rejected lookup promise carries; auth.js passes it on unchanged.
BackendError == Err("BackendError")

\* ------------------------------------------------------ collaborators (dal)
\* dal.context.get(domain): the value its promise resolves with.
ContextGet(domain) ==
  IF domain = "" THEN Undefined ELSE [domain |-> domain]

\* dal.mailbox.get(number, context): the value its promise resolves with.
MailboxGet(number, ctx) ==
  IF number = "" THEN Undefined
  ELSE [mailboxNumber |-> number, password |-> "mypassword", context |-> ctx]

\* mailboxNumber || '' in api.init.
OrEmpty(number) ==
  IF number = UndefinedArg \/ number = "" THEN "" ELSE number

\* ------------------------------------------------------------------- state
VARIABLES
  skipAuth,              \* the skipAuth argument of create(channel, skipAuth)
  state,                 \* fsm.state
  targetReplayState,     \* fsm.targetReplayState (machina)
  context,               \* fsm.context
  mailbox,               \* fsm.mailbox
  currentHangupHandler,  \* fsm.currentHangupHandler is set (not null)
  channelListeners,      \* 'StasisEnd' listeners of the session on the channel
  currentPrompt,         \* fsm.currentPrompt: index into prompts, 0 = undefined
  prompts,               \* prompts created so far: [sounds, stopped]
  eventQueue,            \* fsm.eventQueue: inputs deferred until a transition
  calls,                 \* facade calls: [op, args, attached, outcome], with
                         \* history: handled, calledIn, afterHangup
  tickQueue,             \* process.nextTick callbacks not yet run (call ids)
  pending,               \* lookup promise chains whose continuation is due
  emitted,               \* history: events emitted by the state machine
  visited,               \* history: states entered, in order
  misuse,                \* history: 'Called handle on spent fsm' log lines
  hungup,                \* the channel has emitted 'StasisEnd'
  last                   \* history: the task run by the last step

vars == <<skipAuth, state, targetReplayState, context, mailbox,
          currentHangupHandler, channelListeners, currentPrompt, prompts,
          eventQueue, calls, tickQueue, pending, emitted, visited, misuse,
          hungup, last>>

\* The part of the state that one task of the event loop reads and writes,
\* as a record, so that nested emit/transition/handle calls compose.
Machine ==
  [state |-> state, targetReplayState |-> targetReplayState,
   context |-> context, mailbox |-> mailbox,
   currentHangupHandler |-> currentHangupHandler,
   channelListeners |-> channelListeners,
   currentPrompt |-> currentPrompt, prompts |-> prompts,
   eventQueue |-> eventQueue, calls |-> calls, pending |-> pending,
   emitted |-> emitted, visited |-> visited, misuse |-> misuse]

Commit(m) ==
  /\ state' = m.state
  /\ targetReplayState' = m.targetReplayState
  /\ context' = m.context
  /\ mailbox' = m.mailbox
  /\ currentHangupHandler' = m.currentHangupHandler
  /\ channelListeners' = m.channelListeners
  /\ currentPrompt' = m.currentPrompt
  /\ prompts' = m.prompts
  /\ eventQueue' = m.eventQueue
  /\ calls' = m.calls
  /\ pending' = m.pending
  /\ emitted' = m.emitted
  /\ visited' = m.visited
  /\ misuse' = m.misuse

\* ------------------------------------------------- facade listeners, emit
\* The events a facade call's listeners are attached to (state.on).
Listens(op, ev) ==
  IF op = "authenticate" THEN ev \in {"Authenticated", "Error"}
  ELSE ev \in {"AuthenticatorLoaded", "Error"}

\* deferred.resolve / deferred.reject: a settled promise stays as it is.
Settle(outcome, how, value) ==
  IF outcome.k = "pending" THEN [k |-> how, v |-> value] ELSE outcome

\* OnTerminal without removeListeners().
OnTerminal_KeepsListeners(c, how, value) ==
  [c EXCEPT !.outcome = Settle(@, how, value)]

\* onLoaded / onAuthenticated / onError of one call: removeListeners(), then
\* resolve or reject the call's deferred.
OnTerminal(c, how, value) ==
  [c EXCEPT !.attached = FALSE, !.outcome = Settle(@, how, value)]

\* Deliver with the Error listener of an authenticate call hearing only the
\* errors of authenticating (InvalidPassword) and the hang-up.
Deliver_OwnErrorsOnly(c, ev, arg) ==
  IF /\ c.attached /\ Listens(c.op, ev)
     /\ ~(/\ c.op = "authenticate" /\ ev = "Error"
          /\ arg.name \notin {"InvalidPassword", "ChannelHungup"})
  THEN OnTerminal(c, IF ev = "Error" THEN "rejected" ELSE "resolved", arg)
  ELSE c

\* What emitting ev does to one call: its listener for ev runs if attached.
Deliver(c, ev, arg) ==
  IF c.attached /\ Listens(c.op, ev)
  THEN OnTerminal(c, IF ev = "Error" THEN "rejected" ELSE "resolved", arg)
  ELSE c

\* this.emit(ev, arg): every listener attached when the event is emitted runs.
Emit(m, ev, arg) ==
  [m EXCEPT !.emitted = Append(@, [ev |-> ev, arg |-> arg]),
            !.calls = [i \in DOMAIN m.calls |-> Deliver(m.calls[i], ev, arg)]]

\* ------------------------------------------------------- the state machine
RECURSIVE Transition(_, _)
RECURSIVE HandleAll(_, _)

\* removeHangupHandler.
RemoveHangupHandler(m) ==
  IF m.currentHangupHandler
  THEN [m EXCEPT !.channelListeners = IF @ > 0 THEN @ - 1 ELSE 0,
                 !.currentHangupHandler = FALSE]
  ELSE m

\* dependencies.prompt.create(sounds, channel) assigned to currentPrompt,
\* then currentPrompt.play().
StartPrompt(m, sounds) ==
  [m EXCEPT !.prompts = Append(@, [sounds |-> sounds, stopped |-> FALSE]),
            !.currentPrompt = Len(m.prompts) + 1]

\* if (this.currentPrompt) this.currentPrompt.stop().
StopPrompt(m) ==
  IF m.currentPrompt = 0 THEN m
  ELSE [m EXCEPT !.prompts[m.currentPrompt].stopped = TRUE]

\* _onEnter of 'authenticating'.
AuthenticatingOnEnter(m) ==
  IF skipAuth THEN Transition(m, "done") ELSE StartPrompt(m, "password")

\* DoneOnEnter without the cleanup.
DoneOnEnter_KeepsHandler(m) == m

\* _onEnter of 'done'.
DoneOnEnter(m) == RemoveHangupHandler(m)

\* The _onEnter of each state that can be the target of a transition
\* ('init' is entered by the constructor only; 'unknownMailbox' only logs).
OnEnter(m, s) ==
  CASE s = "authenticating" -> AuthenticatingOnEnter(m)
    [] s = "done"           -> DoneOnEnter(m)
    [] OTHER                -> m

\* this.deferUntilTransition(untilState) for the input being handled.
DeferUntilTransition(m, untilState, input, args, call) ==
  [m EXCEPT !.eventQueue =
     Append(@, [untilState |-> untilState, input |-> input,
                args |-> args, call |-> call])]

\* states.init.init: starts dal.context.get(domain); the continuations run
\* as later tasks.
InitInit(m, args, call) ==
  [m EXCEPT !.pending = @ \cup
     {[call |-> call, op |-> "init", stage |-> "context",
       domain |-> args[1], number |-> args[2], context |-> Undefined]}]

\* UnknownMailboxSetMailbox with this.context lost (undefined) in the lookup.
UnknownMailboxSetMailbox_NoContext(m, args, call) ==
  [m EXCEPT !.pending = @ \cup
     {[call |-> call, op |-> "setMailbox", stage |-> "mailbox",
       domain |-> "", number |-> args[1], context |-> Undefined]}]

\* states.unknownMailbox.setMailbox: starts
\* dal.mailbox.get(mailboxNumber, this.context).
UnknownMailboxSetMailbox(m, args, call) ==
  [m EXCEPT !.pending = @ \cup
     {[call |-> call, op |-> "setMailbox", stage |-> "mailbox",
       domain |-> "", number |-> args[1], context |-> m.context]}]

\* AuthenticatingAuthenticate without transition('done') after a match.
AuthenticatingAuthenticate_NoTransition(m, args) ==
  LET m1 == StopPrompt(m) IN
  IF m1.mailbox.password # args[1]
  THEN StartPrompt(Emit(m1, "Error", Err("InvalidPassword")),
                   "invalidPassword")
  ELSE Emit(m1, "Authenticated", Undefined)

\* AuthenticatingAuthenticate ending the session on a mismatch, as the lookup
\* errors do.
AuthenticatingAuthenticate_MismatchEnds(m, args) ==
  LET m1 == StopPrompt(m) IN
  IF m1.mailbox.password # args[1]
  THEN Transition(Emit(m1, "Error", Err("InvalidPassword")), "done")
  ELSE Transition(Emit(m1, "Authenticated", Undefined), "done")

\* states.authenticating.authenticate.
AuthenticatingAuthenticate(m, args) ==
  LET m1 == StopPrompt(m) IN
  IF m1.mailbox.password # args[1]
  THEN StartPrompt(Emit(m1, "Error", Err("InvalidPassword")),
                   "invalidPassword")
  ELSE Transition(Emit(m1, "Authenticated", Undefined), "done")

\* DoneAny answering the spent session's caller with an Error event.
DoneAny_EmitsError(m) ==
  Emit([m EXCEPT !.misuse = @ + 1], "Error", Err("ChannelHungup"))

\* states.done['*'].
DoneAny(m) == [m EXCEPT !.misuse = @ + 1]

\* The inputs a state defers instead of handling, and until which state.
Defers(s, input) ==
  \/ s = "init" /\ input \in {"setMailbox", "authenticate"}
  \/ s = "unknownMailbox" /\ input = "authenticate"

DeferTarget(input) ==
  IF input = "setMailbox" THEN "unknownMailbox" ELSE "authenticating"

\* History: the state in which a call's input reached a handler (or was
\* dropped), the state when that handler returned, whether the call's
\* listeners were still attached when it started, and the input's place among
\* the inputs handled so far.
NotHandled == [in |-> "-", out |-> "-", attached |-> FALSE, at |-> 0]

Mark(m, call, in, wasAttached) ==
  [m EXCEPT !.calls[call].handled =
     [in |-> in, out |-> m.state, attached |-> wasAttached,
      at |-> 1 + Cardinality({i \in DOMAIN m.calls :
                                 m.calls[i].handled # NotHandled})]]

\* fsm.handle(input, args...): the handler of the current state for the
\* input, the catch-all of 'done', or nothing when the state has no handler.
Handle(m, input, args, call) ==
  IF Defers(m.state, input)
  THEN DeferUntilTransition(m, DeferTarget(input), input, args, call)
  ELSE Mark(CASE m.state = "init" /\ input = "init" ->
                   InitInit(m, args, call)
              [] m.state = "unknownMailbox" /\ input = "setMailbox" ->
                   UnknownMailboxSetMailbox(m, args, call)
              [] m.state = "authenticating" /\ input = "authenticate" ->
                   AuthenticatingAuthenticate(m, args)
              [] m.state = "done" -> DoneAny(m)
              [] OTHER -> m,
            call, m.state, m.calls[call].attached)

\* _.each(toProcess, handle): replays the deferred inputs in queue order.
HandleAll(m, items) ==
  IF items = <<>> THEN m
  ELSE HandleAll(Handle(m, items[1].input, items[1].args, items[1].call),
                 Tail(items))

\* Whether processQueue replays a deferred input in the state now entered.
Replayed(item, s) == item.untilState = s

\* ProcessQueue replaying the deferred inputs last first.
ProcessQueue_Reversed(m) ==
  LET toProcess == SelectSeq(m.eventQueue, LAMBDA it : Replayed(it, m.state))
      rest == SelectSeq(m.eventQueue, LAMBDA it : ~Replayed(it, m.state))
  IN HandleAll([m EXCEPT !.eventQueue = rest],
               [k \in DOMAIN toProcess |->
                  toProcess[Len(toProcess) + 1 - k]])

\* fsm.processQueue(NEXT_TRANSITION).
ProcessQueue(m) ==
  LET toProcess == SelectSeq(m.eventQueue, LAMBDA it : Replayed(it, m.state))
      rest == SelectSeq(m.eventQueue, LAMBDA it : ~Replayed(it, m.state))
  IN HandleAll([m EXCEPT !.eventQueue = rest], toProcess)

\* fsm.transition(newState).
Transition(m, newState) ==
  IF newState = m.state THEN m
  ELSE LET m1 == [m EXCEPT !.targetReplayState = newState,
                           !.state = newState,
                           !.visited = Append(@, newState)]
           m2 == OnEnter(m1, newState)
       IN IF m2.targetReplayState = newState THEN ProcessQueue(m2) ELSE m2

\* hangupHandler without the Error event.
HangupHandler_NoEmit(m) == Transition(m, "done")

\* hangupHandler.
HangupHandler(m) ==
  Transition(Emit(m, "Error", Err("ChannelHungup")), "done")

\* ------------------------------------------- continuations of the lookups
Replace(m, t, new) == [m EXCEPT !.pending = (@ \ {t}) \cup new]

\* InitContextThen without the early return's emit: a missing context only
\* ends the session.
InitContextThen_NoError(m, t) ==
  LET ctx == ContextGet(t.domain) IN
  IF ctx = Undefined
  THEN Transition(Replace(m, t, {[t EXCEPT !.stage = "skipped"]}), "done")
  ELSE [Replace(m, t, {[t EXCEPT !.stage = "mailbox", !.context = ctx]})
          EXCEPT !.context = ctx]

\* First .then of states.init.init, run with the result of
\* dal.context.get(domain).
InitContextThen(m, t) ==
  LET ctx == ContextGet(t.domain) IN
  IF ctx = Undefined
  THEN Transition(Emit(Replace(m, t, {[t EXCEPT !.stage = "skipped"]}),
                       "Error", Err("ContextNotFound")), "done")
  ELSE [Replace(m, t, {[t EXCEPT !.stage = "mailbox", !.context = ctx]})
          EXCEPT !.context = ctx]

\* InitMailboxThen that never assigns self.mailbox.
InitMailboxThen_NoAssign(m, t) ==
  LET mb == IF t.stage = "skipped" THEN Undefined
            ELSE MailboxGet(t.number, t.context)
      m0 == Replace(m, t, {})
  IN IF mb = Undefined
     THEN Transition(Emit(m0, "Error", Err("MailboxNotFound")),
                     "unknownMailbox")
     ELSE Transition(Emit(m0, "AuthenticatorLoaded", mb), "authenticating")

\* InitMailboxThen with the event emitted before self.mailbox is assigned.
InitMailboxThen_EmitsBeforeAssign(m, t) ==
  LET mb == IF t.stage = "skipped" THEN Undefined
            ELSE MailboxGet(t.number, t.context)
      m0 == Replace(m, t, {})
  IN IF mb = Undefined
     THEN Transition(Emit(m0, "Error", Err("MailboxNotFound")),
                     "unknownMailbox")
     ELSE Transition([Emit(m0, "AuthenticatorLoaded", m0.mailbox)
                        EXCEPT !.mailbox = mb], "authenticating")

\* Second .then of states.init.init, run with the result of
\* dal.mailbox.get(mailboxNumber, self.context), or with undefined when the
\* first .then returned without a lookup.
InitMailboxThen(m, t) ==
  LET mb == IF t.stage = "skipped" THEN Undefined
            ELSE MailboxGet(t.number, t.context)
      m0 == Replace(m, t, {})
  IN IF mb = Undefined
     THEN Transition(Emit(m0, "Error", Err("MailboxNotFound")),
                     "unknownMailbox")
     ELSE Transition(Emit([m0 EXCEPT !.mailbox = mb],
                          "AuthenticatorLoaded", mb), "authenticating")

\* SetMailboxThen ending the session on a missing mailbox, as init does on a
\* missing context.
SetMailboxThen_NotFoundEnds(m, t) ==
  LET mb == MailboxGet(t.number, t.context)
      m0 == Replace(m, t, {})
  IN IF mb = Undefined
     THEN Transition(Emit(m0, "Error", Err("MailboxNotFound")), "done")
     ELSE Transition(Emit([m0 EXCEPT !.mailbox = mb],
                          "AuthenticatorLoaded", mb), "authenticating")

\* .then of states.unknownMailbox.setMailbox.
SetMailboxThen(m, t) ==
  LET mb == MailboxGet(t.number, t.context)
      m0 == Replace(m, t, {})
  IN IF mb = Undefined
     THEN Emit(m0, "Error", Err("MailboxNotFound"))
     ELSE Transition(Emit([m0 EXCEPT !.mailbox = mb],
                          "AuthenticatorLoaded", mb), "authenticating")

\* LookupCatch that reports the error and leaves the session open.
LookupCatch_StaysOpen(m, t) ==
  Emit(Replace(m, t, {}), "Error", BackendError)

\* .catch of either chain, run when the lookup's promise is rejected.
LookupCatch(m, t) ==
  Transition(Emit(Replace(m, t, {}), "Error", BackendError), "done")

\* ------------------------------------------------------------- the facade
Pending == [k |-> "pending"]

\* The waiter slot of an operation: init and setMailbox wait for
\* AuthenticatorLoaded, authenticate waits for Authenticated.
Slot(op) == IF op = "authenticate" THEN "authenticate" ELSE "loaded"

\* The caller awaits a call before it makes the next one of the same slot.
Awaited(op) ==
  \A i \in DOMAIN calls :
     Slot(calls[i].op) = Slot(op) => calls[i].outcome # Pending

\* The process.nextTick callback without the skipAuth shortcut.
Tick_AlwaysHandles(m, c) == Handle(m, m.calls[c].op, m.calls[c].args, c)

\* The process.nextTick callback of a call.
Tick(m, c) ==
  IF m.calls[c].op = "authenticate" /\ skipAuth
  THEN [m EXCEPT !.calls[c] = OnTerminal(@, "resolved", Undefined)]
  ELSE Handle(m, m.calls[c].op, m.calls[c].args, c)

\* ApiCall handing the input to the state machine inside the call, without
\* process.nextTick.
ApiCall_DispatchesInCall(op, args) ==
  /\ Len(calls) < MaxCalls
  /\ Awaited(op)
  /\ Commit(Tick([Machine EXCEPT !.calls =
                    Append(calls, [op |-> op, args |-> args,
                                   attached |-> TRUE, outcome |-> Pending,
                                   handled |-> NotHandled,
                                   calledIn |-> state,
                                   afterHangup |-> hungup])],
                 Len(calls) + 1))
  /\ last' = [act |-> "call", call |-> Len(calls) + 1, from |-> state]
  /\ UNCHANGED <<skipAuth, tickQueue, hungup>>

\* api.init / api.setMailbox / api.authenticate up to the return: the
\* listeners are attached and the dispatch is left to process.nextTick.
ApiCall(op, args) ==
  /\ Len(calls) < MaxCalls
  /\ Awaited(op)
  /\ calls' = Append(calls, [op |-> op, args |-> args, attached |-> TRUE,
                             outcome |-> Pending, handled |-> NotHandled,
                             calledIn |-> state, afterHangup |-> hungup])
  /\ tickQueue' = Append(tickQueue, Len(calls) + 1)
  /\ last' = [act |-> "call", call |-> Len(calls) + 1, from |-> state]
  /\ UNCHANGED <<skipAuth, state, targetReplayState, context, mailbox,
                 currentHangupHandler, channelListeners, currentPrompt,
                 prompts, eventQueue, pending, emitted, visited, misuse,
                 hungup>>

ApiInit == \E d \in Domains, n \in NumberArgs :
  ApiCall("init", <<d, OrEmpty(n)>>)

ApiSetMailbox == \E n \in NumberArgs : ApiCall("setMailbox", <<n>>)

ApiAuthenticate == \E p \in Passwords : ApiCall("authenticate", <<p>>)

Dispatch ==
  /\ tickQueue # <<>>
  /\ Commit(Tick(Machine, Head(tickQueue)))
  /\ tickQueue' = Tail(tickQueue)
  /\ last' = [act |-> "dispatch", call |-> Head(tickQueue), from |-> state]
  /\ UNCHANGED <<skipAuth, hungup>>

\* ------------------------------------------------ lookup responses, hang-up
ContextResponse == \E t \in pending :
  /\ t.op = "init" /\ t.stage = "context"
  /\ Commit(InitContextThen(Machine, t))
  /\ last' = [act |-> "contextThen", call |-> t.call, from |-> state]
  /\ UNCHANGED <<skipAuth, tickQueue, hungup>>

InitMailboxResponse == \E t \in pending :
  /\ t.op = "init" /\ t.stage \in {"mailbox", "skipped"}
  /\ Commit(InitMailboxThen(Machine, t))
  /\ last' = [act |-> "initMailboxThen", call |-> t.call, from |-> state]
  /\ UNCHANGED <<skipAuth, tickQueue, hungup>>

SetMailboxResponse == \E t \in pending :
  /\ t.op = "setMailbox"
  /\ Commit(SetMailboxThen(Machine, t))
  /\ last' = [act |-> "setMailboxThen", call |-> t.call, from |-> state]
  /\ UNCHANGED <<skipAuth, tickQueue, hungup>>

LookupFailure == \E t \in pending :
  /\ t.stage \in {"context", "mailbox"}
  /\ Commit(LookupCatch(Machine, t))
  /\ last' = [act |-> "catch", call |-> t.call, from |-> state]
  /\ UNCHANGED <<skipAuth, tickQueue, hungup>>

\* channel.emit('StasisEnd'): the once-listener, if still subscribed, is
\* removed and run.
StasisEnd ==
  /\ ~hungup
  /\ hungup' = TRUE
  /\ IF channelListeners > 0
     THEN Commit(HangupHandler([Machine EXCEPT !.channelListeners = @ - 1]))
     ELSE Commit(Machine)
  /\ last' = [act |-> "StasisEnd", call |-> 0, from |-> state]
  /\ UNCHANGED <<skipAuth, tickQueue>>

\* --------------------------------------------- calls that are not awaited
\* The facade does not serialize overlapping calls: a caller that does not
\* await a call before the next one attaches the new call's listeners and
\* schedules its tick all the same.  Such a caller still starts the session
\* once: it makes one init call.
OverlappedCall(op, args) ==
  /\ Len(calls) < MaxCalls
  /\ calls' = Append(calls, [op |-> op, args |-> args, attached |-> TRUE,
                             outcome |-> Pending, handled |-> NotHandled,
                             calledIn |-> state, afterHangup |-> hungup])
  /\ tickQueue' = Append(tickQueue, Len(calls) + 1)
  /\ last' = [act |-> "call", call |-> Len(calls) + 1, from |-> state]
  /\ UNCHANGED <<skipAuth, state, targetReplayState, context, mailbox,
                 currentHangupHandler, channelListeners, currentPrompt,
                 prompts, eventQueue, pending, emitted, visited, misuse,
                 hungup>>

OverlappedInit == \E d \in Domains, n \in NumberArgs :
  /\ \A i \in DOMAIN calls : calls[i].op # "init"
  /\ OverlappedCall("init", <<d, OrEmpty(n)>>)

OverlappedSetMailbox == \E n \in NumberArgs : OverlappedCall("setMailbox", <<n>>)

OverlappedAuthenticate == \E p \in Passwords :
  OverlappedCall("authenticate", <<p>>)

\* ----------------------------------------------------------- specification
\* The session as create(channel, skipAuth) leaves it: machina's constructor
\* has entered 'init', whose _onEnter subscribed the hang-up handler.
Init ==
  /\ skipAuth \in BOOLEAN
  /\ state = "init"
  /\ targetReplayState = "init"
  /\ context = Undefined
  /\ mailbox = Undefined
  /\ currentHangupHandler = TRUE
  /\ channelListeners = 1
  /\ currentPrompt = 0
  /\ prompts = <<>>
  /\ eventQueue = <<>>
  /\ calls = <<>>
  /\ tickQueue = <<>>
  /\ pending = {}
  /\ emitted = <<>>
  /\ visited = <<"init">>
  /\ misuse = 0
  /\ hungup = FALSE
  /\ last = [act |-> "create", call |-> 0, from |-> "init"]

Next ==
  \/ ApiInit
  \/ ApiSetMailbox
  \/ ApiAuthenticate
  \/ Dispatch
  \/ ContextResponse
  \/ InitMailboxResponse
  \/ SetMailboxResponse
  \/ LookupFailure
  \/ StasisEnd

Spec == Init /\ [][Next]_vars

\* The session with a caller that may overlap its calls.
NextOverlapped ==
  \/ OverlappedInit
  \/ OverlappedSetMailbox
  \/ OverlappedAuthenticate
  \/ Dispatch
  \/ ContextResponse
  \/ InitMailboxResponse
  \/ SetMailboxResponse
  \/ LookupFailure
  \/ StasisEnd

SpecOverlapped == Init /\ [][NextOverlapped]_vars

\* ================================================================== claims
Resolved(value) == [k |-> "resolved", v |-> value]
Rejected(name) == [k |-> "rejected", v |-> Err(name)]

\* The context an init call's domain resolves to, and the mailbox its number
\* resolves to in that context.
InitContext(c) == ContextGet(c.args[1])
InitMailbox(c) == MailboxGet(c.args[2], InitContext(c))

\* A deferred authenticate in the queue carries the password p.
QueuedAuthenticate(p) ==
  \E k \in DOMAIN eventQueue :
     eventQueue[k].untilState = "authenticating" /\ eventQueue[k].args[1] = p

\* The step is the second continuation of init call last'.call, both of whose
\* lookups found their object; skip-authentication is off and the channel has
\* not hung up.
InitLoadedStep ==
  /\ last'.act = "initMailboxThen"
  /\ ~skipAuth /\ ~hungup'
  /\ InitContext(calls[last'.call]) # Undefined
  /\ InitMailbox(calls[last'.call]) # Undefined

\* C1 as stated: when domain and number both resolve and no hang-up occurs
\* (skip-authentication off), init's future is resolved with the mailbox that
\* dal.mailbox.get returns for the number in the context of the domain, and
\* the session is in authenticating after that continuation.
C1_InitLeavesSessionInAuthenticating ==
  [][InitLoadedStep =>
       /\ calls'[last'.call].outcome = Resolved(InitMailbox(calls[last'.call]))
       /\ state' = "authenticating"]_vars

\* C1 amended: init's future is resolved with that mailbox and the session
\* enters authenticating; after the continuation it is in authenticating,
\* unless an authenticate deferred during init carries the stored password:
\* its replay on entering authenticating moves the session on to done.
C1_InitResolvesWithLookedUpMailbox ==
  [][InitLoadedStep =>
       /\ calls'[last'.call].outcome = Resolved(InitMailbox(calls[last'.call]))
       /\ mailbox' = InitMailbox(calls[last'.call])
       /\ Len(visited') > Len(visited)
       /\ visited'[Len(visited) + 1] = "authenticating"
       /\ state' = IF QueuedAuthenticate(mailbox'.password)
                   THEN "done" ELSE "authenticating"]_vars

C1_Witness ==
  /\ last.act = "initMailboxThen" /\ ~skipAuth /\ ~hungup
  /\ calls[last.call].outcome = Resolved(InitMailbox(calls[last.call]))
  /\ calls[last.call].args = <<"mydomain.com", "1234">>
  /\ state = "authenticating"

\* C2: when dal.context.get finds no context for init's domain and the channel
\* has not hung up before that response, init's future is rejected with
\* ContextNotFound, whatever the mailbox number; being settled, it is never
\* afterwards rejected with MailboxNotFound or resolved.
C2_UnknownDomainRejectsContextNotFound ==
  [][/\ (last'.act = "contextThen" /\ ~hungup'
           /\ InitContext(calls[last'.call]) = Undefined)
        => calls'[last'.call].outcome = Rejected("ContextNotFound")
     /\ \A i \in DOMAIN calls :
          calls[i].outcome = Rejected("ContextNotFound")
            => calls'[i].outcome = calls[i].outcome]_vars

C2_Witness ==
  /\ last.act = "initMailboxThen" /\ ~hungup
  /\ calls[last.call].args = <<"", "1234">>
  /\ calls[last.call].outcome = Rejected("ContextNotFound")
  /\ emitted[Len(emitted)] = [ev |-> "Error", arg |-> Err("MailboxNotFound")]

\* C3: once both continuations of an init whose domain was not found have run,
\* the session is in done.
C3_UnknownDomainEndsInDone ==
  (last.act = "initMailboxThen" /\ InitContext(calls[last.call]) = Undefined)
    => state = "done"

\* The state s has been entered at some point.
Reached(s) == \E k \in DOMAIN visited : visited[k] = s

\* Init call i was handled in init, its domain resolved, its number did not,
\* and its future was rejected with MailboxNotFound.
InitMissedMailbox(i) ==
  /\ calls[i].op = "init" /\ calls[i].handled.in = "init"
  /\ InitContext(calls[i]) # Undefined
  /\ InitMailbox(calls[i]) = Undefined
  /\ calls[i].outcome = Rejected("MailboxNotFound")

\* C4: with no hang-up, (a) an init whose domain resolves and whose number
\* does not is rejected with MailboxNotFound and leaves the session in
\* unknownMailbox with the context set; (b) a setMailbox made after that with
\* a number that resolves is resolved with the mailbox dal.mailbox.get returns
\* for it in the context init resolved, and the session enters authenticating
\* (and goes on to done at once under skip-authentication or when a deferred
\* authenticate matches).
C4_SetMailboxAfterInitMiss ==
  [][/\ (last'.act = "initMailboxThen" /\ ~hungup'
           /\ InitContext(calls[last'.call]) # Undefined
           /\ InitMailbox(calls[last'.call]) = Undefined)
        => /\ calls'[last'.call].outcome = Rejected("MailboxNotFound")
           /\ state' = "unknownMailbox"
           /\ context' = InitContext(calls[last'.call])
     /\ \A i \in DOMAIN calls :
          (/\ last'.act = "setMailboxThen" /\ ~hungup'
           /\ InitMissedMailbox(i)
           /\ MailboxGet(calls[last'.call].args[1], InitContext(calls[i]))
                # Undefined)
          => /\ calls'[last'.call].outcome =
                  Resolved(MailboxGet(calls[last'.call].args[1],
                                      InitContext(calls[i])))
             /\ mailbox' = calls'[last'.call].outcome.v
             /\ Len(visited') > Len(visited)
             /\ visited'[Len(visited) + 1] = "authenticating"
             /\ state' = IF skipAuth \/ QueuedAuthenticate(mailbox'.password)
                         THEN "done" ELSE "authenticating"]_vars

C4_Witness ==
  /\ last.act = "setMailboxThen" /\ ~hungup /\ ~skipAuth
  /\ InitMissedMailbox(1)
  /\ calls[1].args = <<"mydomain.com", "">>
  /\ calls[last.call].outcome =
       Resolved(MailboxGet("1234", [domain |-> "mydomain.com"]))
  /\ state = "authenticating"

\* C5: when the lookup of a setMailbox finds no mailbox while the session is
\* in unknownMailbox and the channel has not hung up, the call is rejected with MailboxNotFound and state,
\* context and mailbox stay as they are; and every setMailbox dispatched in
\* unknownMailbox, also after such failures, starts its lookup against the
\* session's context.
C5_SetMailboxMissKeepsUnknownMailbox ==
  [][/\ (/\ last'.act = "setMailboxThen" /\ state = "unknownMailbox"
         /\ ~hungup'
         /\ \E t \in pending \ pending' :
               t.call = last'.call /\ MailboxGet(t.number, t.context) = Undefined)
        => /\ calls'[last'.call].outcome = Rejected("MailboxNotFound")
           /\ state' = "unknownMailbox"
           /\ context' = context /\ mailbox' = mailbox
     /\ (/\ last'.act = "dispatch" /\ state = "unknownMailbox"
         /\ calls[last'.call].op = "setMailbox")
        => /\ state' = "unknownMailbox"
           /\ \E t \in pending' \ pending :
                /\ t.call = last'.call /\ t.op = "setMailbox"
                /\ t.number = calls[last'.call].args[1]
                /\ t.context = context]_vars

C5_Witness ==
  /\ Len(calls) = 3
  /\ calls[2].op = "setMailbox" /\ calls[2].outcome = Rejected("MailboxNotFound")
  /\ calls[2].handled.in = "unknownMailbox"
  /\ calls[3].op = "setMailbox" /\ calls[3].outcome = Rejected("MailboxNotFound")
  /\ calls[3].handled.in = "unknownMailbox"
  /\ last.act = "setMailboxThen" /\ last.call = 3
  /\ state = "unknownMailbox"

\* An authenticate call whose input the authenticating state handled
\* (dispatched there, or deferred earlier and replayed on entry) while the
\* call's listeners were still attached.
AuthenticateHandled(a) ==
  /\ calls[a].op = "authenticate"
  /\ calls[a].handled.in = "authenticating"
  /\ calls[a].handled.attached

\* C6: with skip-authentication off, an authenticate handled in authenticating
\* with the stored password, its call still pending then, resolves the call's
\* future (with no value) and the handler leaves the session in done.
C6_MatchResolvesAndEnds ==
  \A a \in DOMAIN calls :
     (AuthenticateHandled(a) /\ calls[a].args[1] = mailbox.password)
     => /\ calls[a].outcome = Resolved(Undefined)
        /\ calls[a].handled.out = "done"
        /\ Reached("done")

C6_Witness ==
  /\ ~skipAuth /\ ~hungup /\ state = "done"
  /\ last.act = "dispatch" /\ last.from = "authenticating"
  /\ AuthenticateHandled(last.call)
  /\ calls[last.call].args = <<"mypassword">>
  /\ calls[last.call].outcome = Resolved(Undefined)

\* The step dispatches an authenticate to the authenticating state.
AuthenticateStep ==
  /\ last'.act = "dispatch" /\ state = "authenticating" /\ ~skipAuth
  /\ calls[last'.call].op = "authenticate"

\* C7: with skip-authentication off, an authenticate handled in authenticating
\* with a password other than the stored one rejects its (still pending) call
\* with InvalidPassword and leaves state and mailbox as they are; and after
\* such failures an authenticate with the stored password still resolves.
C7_MismatchRejectsAndStays ==
  [][/\ (AuthenticateStep /\ calls[last'.call].args[1] # mailbox.password)
        => /\ state' = "authenticating"
           /\ mailbox' = mailbox /\ context' = context
           /\ calls[last'.call].attached
                => calls'[last'.call].outcome = Rejected("InvalidPassword")
     /\ \A a \in DOMAIN calls' :
          (/\ calls'[a].op = "authenticate"
           /\ calls'[a].handled.in = "authenticating"
           /\ calls'[a].handled.attached
           /\ calls'[a].args[1] # mailbox'.password)
          => /\ calls'[a].outcome = Rejected("InvalidPassword")
             /\ calls'[a].handled.out = "authenticating"
     /\ (/\ AuthenticateStep /\ calls[last'.call].args[1] = mailbox.password
         /\ calls[last'.call].attached
         /\ \E b \in DOMAIN calls :
               calls[b].outcome = Rejected("InvalidPassword"))
        => /\ calls'[last'.call].outcome = Resolved(Undefined)
           /\ state' = "done"]_vars

C7_Witness ==
  /\ Len(calls) = 3 /\ ~skipAuth /\ ~hungup
  /\ calls[2].op = "authenticate" /\ calls[2].args = <<"notmypassword">>
  /\ calls[2].handled.in = "authenticating"
  /\ calls[2].handled.out = "authenticating"
  /\ calls[2].handled.attached
  /\ calls[2].outcome = Rejected("InvalidPassword")
  /\ calls[3].op = "authenticate" /\ calls[3].args = <<"mypassword">>
  /\ calls[3].outcome = Resolved(Undefined)
  /\ state = "done"

\* C8: when StasisEnd fires on a session that has never reached done, every
\* facade call pending at that moment is rejected with ChannelHungup, whether
\* its input waits for its tick, is deferred in the queue, or has a lookup in
\* flight; and the session is then in done.
C8_HangupRejectsPendingCalls ==
  [][(~hungup /\ hungup' /\ ~Reached("done"))
       => /\ \A c \in DOMAIN calls :
               calls[c].outcome = Pending
                 => calls'[c].outcome = Rejected("ChannelHungup")
          /\ state' = "done"]_vars

C8_Witness ==
  /\ last.act = "StasisEnd"
  /\ \E i, a \in DOMAIN calls :
       /\ calls[i].op = "init" /\ calls[i].outcome = Rejected("ChannelHungup")
       /\ \E t \in pending : t.call = i
       /\ calls[a].op = "authenticate"
       /\ calls[a].outcome = Rejected("ChannelHungup")
       /\ \E k \in DOMAIN eventQueue : eventQueue[k].call = a

\* The hang-up handler has run: the state machine emitted ChannelHungup.
HangupHandled ==
  \E k \in DOMAIN emitted :
     emitted[k] = [ev |-> "Error", arg |-> Err("ChannelHungup")]

\* C9: a facade call made after the hang-up handler has run is rejected with
\* ChannelHungup: it is never settled otherwise, and it is rejected once its
\* tick has run.
C9_CallAfterHangupRejects ==
  \A c \in DOMAIN calls :
     (calls[c].afterHangup /\ HangupHandled)
     => /\ calls[c].outcome \in {Pending, Rejected("ChannelHungup")}
        /\ (\A k \in DOMAIN tickQueue : tickQueue[k] # c)
             => calls[c].outcome = Rejected("ChannelHungup")

\* C10: under skip-authentication the tick of an authenticate call resolves
\* the call (if still pending) whatever its password and whatever the
\* session's mailbox, and gives the input to no handler: the state machine,
\* its events and its queue are untouched.
C10_SkipAuthResolvesAnyPassword ==
  [][(/\ last'.act = "dispatch" /\ skipAuth
      /\ calls[last'.call].op = "authenticate")
       => /\ calls[last'.call].outcome = Pending
               => calls'[last'.call].outcome = Resolved(Undefined)
          /\ calls'[last'.call].handled = NotHandled
          /\ ~calls'[last'.call].attached
          /\ <<state, mailbox, context, emitted, eventQueue, prompts, misuse>>'
               = <<state, mailbox, context, emitted, eventQueue, prompts,
                   misuse>>]_vars

C10_Witness ==
  /\ skipAuth /\ last.act = "dispatch"
  /\ calls[last.call].op = "authenticate"
  /\ calls[last.call].args = <<"notmypassword">>
  /\ calls[last.call].outcome = Resolved(Undefined)
  /\ mailbox # Undefined /\ mailbox.password # "notmypassword"

\* No task of the session remains and none can arise without a new facade
\* call: the session is in done (hang-up handler unsubscribed), every tick has
\* run and every lookup has responded and been continued.
Quiescent == state = "done" /\ tickQueue = <<>> /\ pending = {}

\* C11: every facade call produces a terminal outcome, in whatever state the
\* session is when the call is made: once every tick has run and every lookup
\* has responded, with the session in done where no further event can be
\* emitted, no call's future is still pending.
C11_EveryCallSettles ==
  Quiescent => \A c \in DOMAIN calls : calls[c].outcome # Pending

\* The step hands the input of call last'.call to the state machine (the tick
\* of an authenticate under skip-authentication does not).
DeliveryStep ==
  /\ last'.act = "dispatch"
  /\ ~(skipAuth /\ calls[last'.call].op = "authenticate")

\* C12: an input (init, setMailbox or authenticate) delivered while the
\* session is in done is ignored: the state stays done; context, mailbox,
\* prompt handle, prompts and hang-up subscription are unchanged; no event is
\* emitted, no lookup is started, nothing is queued, and no call's future or
\* listeners change; the misuse is logged.
C12_DoneIgnoresInput ==
  [][(DeliveryStep /\ state = "done")
       => /\ state' = "done"
          /\ <<context, mailbox, currentPrompt, prompts, currentHangupHandler,
               channelListeners, emitted, pending, eventQueue>>'
               = <<context, mailbox, currentPrompt, prompts,
                   currentHangupHandler, channelListeners, emitted, pending,
                   eventQueue>>
          /\ \A c \in DOMAIN calls :
               /\ calls'[c].outcome = calls[c].outcome
               /\ calls'[c].attached = calls[c].attached
          /\ calls'[last'.call].handled.in = "done"
          /\ misuse' = misuse + 1]_vars

C12_Witness ==
  /\ last.act = "dispatch" /\ last.from = "done" /\ state = "done"
  /\ ~hungup /\ mailbox # Undefined
  /\ calls[last.call].op = "setMailbox"
  /\ calls[last.call].handled.in = "done"
  /\ calls[last.call].outcome = Pending
  /\ misuse = 1

\* C13: the mailbox number that a setMailbox call hands to the state machine
\* is the call's argument with undefined and '' turned into '': so is every
\* setMailbox input waiting in the queue, and so is the number of every
\* mailbox lookup a setMailbox has started.
C13_SetMailboxNormalises ==
  /\ \A k \in DOMAIN eventQueue :
        eventQueue[k].input = "setMailbox"
          => eventQueue[k].args[1] = OrEmpty(calls[eventQueue[k].call].args[1])
  /\ \A t \in pending :
        t.op = "setMailbox" => t.number = OrEmpty(calls[t.call].args[1])

\* The state changes the specification allows.
ForwardEdges ==
  {<<"init", "unknownMailbox">>, <<"init", "authenticating">>,
   <<"init", "done">>, <<"unknownMailbox", "authenticating">>,
   <<"unknownMailbox", "done">>, <<"authenticating", "done">>}

\* C14: every state change of the session is one of the forward edges; no
\* state is entered again after it was left, and done is never left.
C14_OnlyForwardTransitions ==
  /\ \A k \in 1..(Len(visited) - 1) :
        <<visited[k], visited[k + 1]>> \in ForwardEdges
  /\ \A j, k \in DOMAIN visited : j # k => visited[j] # visited[k]
  /\ Reached("done") => state = "done"

\* The step runs a continuation of a lookup's promise, the channel having
\* emitted StasisEnd before.
LateLookupStep ==
  /\ hungup
  /\ last'.act \in {"contextThen", "initMailboxThen", "setMailboxThen", "catch"}

\* C15: the continuation of a lookup response that arrives after StasisEnd
\* changes neither the session's state nor its context or mailbox, and starts
\* no prompt.
C15_LateLookupDiscarded ==
  [][LateLookupStep
       => /\ state' = state
          /\ context' = context /\ mailbox' = mailbox
          /\ prompts' = prompts /\ currentPrompt' = currentPrompt]_vars

\* The events emitted by the step, in order.
EmittedByStep ==
  {emitted'[k] : k \in (Len(emitted) + 1)..Len(emitted')}

\* C16: once StasisEnd has fired, the state machine emits no AuthenticatorLoaded
\* and no Authenticated event, and no Error other than ChannelHungup.
C16_NoOutcomeAfterHangup ==
  [][hungup => \A e \in EmittedByStep :
                  e = [ev |-> "Error", arg |-> Err("ChannelHungup")]]_vars

\* C17: when StasisEnd fires while the session is in init, unknownMailbox or
\* authenticating, the session is in done when the notification has been
\* handled, having entered done and no other state in that step.
C17_HangupGoesStraightToDone ==
  [][(~hungup /\ hungup' /\ state # "done")
       => /\ state' = "done"
          /\ visited' = Append(visited, "done")]_vars

\* The session's current prompt has been played and not stopped.
PromptActive ==
  currentPrompt # 0 /\ ~prompts[currentPrompt].stopped

\* C18: when StasisEnd fires while the session is in authenticating with a
\* prompt active (skip-authentication off), that prompt is stopped in the step
\* that moves the session to done.
C18_HangupStopsPrompt ==
  [][(~hungup /\ hungup' /\ state = "authenticating" /\ ~skipAuth
        /\ PromptActive)
       => prompts'[currentPrompt].stopped]_vars

\* C19: init is entered once, by the constructor, so the hang-up subscription
\* is created once and the channel never carries more than one listener of the
\* session; and whenever the session is in done (indeed, once it has been in
\* done) the subscription is released: the session holds no handler and no
\* listener of the session is left on StasisEnd.
C19_SubscriptionReleasedInDone ==
  /\ visited[1] = "init"
  /\ \A k \in DOMAIN visited : k > 1 => visited[k] # "init"
  /\ channelListeners \in {0, 1}
  /\ currentHangupHandler => channelListeners = 1 \/ hungup
  /\ state = "done" => ~currentHangupHandler /\ channelListeners = 0
  /\ Reached("done") => ~currentHangupHandler /\ channelListeners = 0

C19_Witness ==
  /\ state = "done" /\ ~hungup
  /\ last.act = "dispatch" /\ last.from = "authenticating"
  /\ ~currentHangupHandler /\ channelListeners = 0

\* The states entered by the step, and whether a queue holds a call's input.
EnteredByStep ==
  {visited'[k] : k \in (Len(visited) + 1)..Len(visited')}

InQueue(q, c) == \E k \in DOMAIN q : q[k].call = c

\* The input of call c as deferUntilTransition queues it.
Queued(c) ==
  [untilState |-> DeferTarget(calls[c].op), input |-> calls[c].op,
   args |-> calls[c].args, call |-> c]

\* C20: (a) a setMailbox delivered in init, and an authenticate delivered in
\* init or unknownMailbox, is not processed there but put at the end of the
\* queue; (b) a queued input has not been processed, it stays queued in every
\* step that does not enter its target state (unknownMailbox for setMailbox,
\* authenticating for authenticate), and the step that enters the target state
\* takes it from the queue and hands it to the state machine, once: the
\* earliest of them to the target state, a later one to the target state or,
\* when an earlier replayed authenticate ended the session, to done; (c) the
\* inputs replayed by a step are handled in the order of their arrival, and
\* the inputs left in the queue keep their order.
C20_DeferredInputsReplayedInOrder ==
  [][/\ (DeliveryStep /\ Defers(state, calls[last'.call].op))
        => /\ eventQueue' = Append(eventQueue, Queued(last'.call))
           /\ calls'[last'.call].handled = NotHandled
           /\ <<state, pending, emitted, context, mailbox>>'
                = <<state, pending, emitted, context, mailbox>>
     /\ \A k \in DOMAIN eventQueue :
          LET it == eventQueue[k] IN
          /\ calls[it.call].handled = NotHandled
          /\ \A j \in DOMAIN eventQueue : j # k => eventQueue[j].call # it.call
          /\ IF it.untilState \in EnteredByStep
             THEN /\ ~InQueue(eventQueue', it.call)
                  /\ calls'[it.call].handled # NotHandled
                  /\ calls'[it.call].handled.in \in {it.untilState, "done"}
                  /\ (\A j \in 1..(k - 1) :
                         eventQueue[j].untilState # it.untilState)
                       => calls'[it.call].handled.in = it.untilState
             ELSE /\ InQueue(eventQueue', it.call)
                  /\ calls'[it.call].handled = NotHandled
     /\ \A j, k \in DOMAIN eventQueue :
          (/\ j < k
           /\ eventQueue[j].untilState = eventQueue[k].untilState
           /\ eventQueue[j].untilState \in EnteredByStep)
          => calls'[eventQueue[j].call].handled.at
               < calls'[eventQueue[k].call].handled.at
     /\ \E n \in 0..Len(eventQueue') :
          SubSeq(eventQueue', 1, n)
            = SelectSeq(eventQueue,
                        LAMBDA it : it.untilState \notin EnteredByStep)]_vars

\* Two setMailbox calls made while init was in flight have been replayed, in
\* their order, by the step that moved the session to unknownMailbox.
C20_Witness ==
  /\ last.act = "initMailboxThen" /\ last.from = "init"
  /\ state = "unknownMailbox"
  /\ Len(calls) = MaxCalls
  /\ \E a, b, c \in DOMAIN calls :
       /\ a < b
       /\ calls[a].op = "setMailbox" /\ calls[a].calledIn = "init"
       /\ calls[b].op = "setMailbox" /\ calls[b].calledIn = "init"
       /\ calls[a].handled.in = "unknownMailbox"
       /\ calls[b].handled.in = "unknownMailbox"
       /\ calls[b].handled.at = calls[a].handled.at + 1
       /\ calls[c].op = "init"

\* C21: when a lookup of call last'.call (the domain or the mailbox lookup of
\* init, or the mailbox lookup of setMailbox) fails, the call, if still
\* pending, is rejected with the error the lookup failed with, unchanged; the
\* session is in done after the step; and the chain is over: its lookup is not
\* started again and no other lookup is started.
C21_BackendErrorPropagates ==
  [][last'.act = "catch"
       => /\ calls[last'.call].outcome = Pending
               => calls'[last'.call].outcome =
                    [k |-> "rejected", v |-> BackendError]
          /\ emitted' = Append(emitted, [ev |-> "Error", arg |-> BackendError])
          /\ state' = "done"
          /\ pending' \subseteq pending
          /\ \A t \in pending' : t.call # last'.call]_vars

C21_Witness ==
  /\ last.act = "catch" /\ last.from = "unknownMailbox" /\ ~hungup
  /\ calls[last.call].op = "setMailbox"
  /\ calls[last.call].outcome = [k |-> "rejected", v |-> BackendError]
  /\ state = "done" /\ pending = {}

\* The step is the continuation of a mailbox lookup, made by init or by
\* setMailbox, that found the mailbox mb; no hang-up has occurred.
MailboxFoundStep(mb) ==
  /\ ~hungup'
  /\ \E t \in pending \ pending' :
       /\ t.call = last'.call
       /\ \/ last'.act = "initMailboxThen" /\ t.stage = "mailbox"
          \/ last'.act = "setMailboxThen"
       /\ mb = MailboxGet(t.number, t.context)
       /\ mb # Undefined

\* C22: under skip-authentication, the continuation of a mailbox lookup that
\* found the mailbox resolves its call (init or setMailbox) with that mailbox,
\* and the session enters authenticating and then done in the same step, with
\* no prompt created and the hang-up subscription released.
C22_SkipAuthGoesStraightToDone ==
  [][\A mb \in {MailboxGet(n, ContextGet(d)) : n \in NumberArgs, d \in Domains} :
       (skipAuth /\ MailboxFoundStep(mb))
       => /\ calls'[last'.call].outcome = Resolved(mb)
          /\ mailbox' = mb
          /\ visited' = visited \o <<"authenticating", "done">>
          /\ state' = "done"
          /\ prompts' = <<>> /\ currentPrompt' = 0
          /\ ~currentHangupHandler' /\ channelListeners' = 0]_vars

\* The prompts started (created and played) and not stopped.
ActivePrompts == {k \in DOMAIN prompts : ~prompts[k].stopped}

\* C23: with skip-authentication off, (a) the step that enters authenticating
\* starts the password prompt; (b) an authenticate dispatched in authenticating
\* stops the current prompt, and then a mismatch starts the invalid-password
\* prompt and makes it the current one, while a match starts none; (c) at any
\* time at most one prompt has been started and not stopped.
C23_AtMostOneActivePrompt ==
  [][~skipAuth =>
       /\ "authenticating" \in EnteredByStep
            => /\ Len(prompts') > Len(prompts)
               /\ prompts'[Len(prompts) + 1].sounds = "password"
       /\ AuthenticateStep
            => /\ currentPrompt # 0 /\ prompts'[currentPrompt].stopped
               /\ IF calls[last'.call].args[1] # mailbox.password
                  THEN /\ Len(prompts') = Len(prompts) + 1
                       /\ prompts'[Len(prompts')] =
                            [sounds |-> "invalidPassword", stopped |-> FALSE]
                       /\ currentPrompt' = Len(prompts')
                  ELSE prompts' =
                         [prompts EXCEPT ![currentPrompt].stopped = TRUE]
       /\ Cardinality(ActivePrompts') <= 1]_vars

\* The input of call c has reached the state machine: a handler has handled
\* it, or it waits in the queue of deferred inputs.
Dispatched(cs, q, c) == cs[c].handled # NotHandled \/ InQueue(q, c)

\* C24: a facade call attaches its listeners and schedules its tick, and
\* nothing else: its input has not reached the state machine when the call
\* returns, and the state machine is untouched; and an input reaches the state
\* machine only in a tick, which is a later step than the call that attached
\* the listeners.
C24_ListenersBeforeDispatch ==
  [][/\ last'.act = "call"
          => /\ last'.call = Len(calls) + 1 /\ Len(calls') = Len(calls) + 1
             /\ calls'[last'.call].attached
             /\ calls'[last'.call].outcome = Pending
             /\ ~Dispatched(calls', eventQueue', last'.call)
             /\ tickQueue' = Append(tickQueue, last'.call)
             /\ <<state, context, mailbox, emitted, eventQueue, pending,
                  prompts, visited>>'
                  = <<state, context, mailbox, emitted, eventQueue, pending,
                      prompts, visited>>
     /\ \A c \in DOMAIN calls' :
          (Dispatched(calls', eventQueue', c)
             /\ (c \in DOMAIN calls => ~Dispatched(calls, eventQueue, c)))
          => /\ c \in DOMAIN calls
             /\ last'.act = "dispatch" /\ last'.call = c
             /\ tickQueue # <<>> /\ Head(tickQueue) = c]_vars

\* The tick of an init call has handed its input to the state machine in a
\* later step than the call, whose listeners were attached all along.
C24_Witness ==
  /\ last.act = "dispatch" /\ calls[last.call].op = "init"
  /\ calls[last.call].handled.in = "init" /\ calls[last.call].handled.attached
  /\ calls[last.call].attached /\ calls[last.call].outcome = Pending
  /\ \E t \in pending : t.call = last.call

\* C25: a call whose future has settled has no listener attached, and its
\* outcome never changes again, whatever the session emits later.
C25_SettledCallIsDetached ==
  [][\A c \in DOMAIN calls' :
       /\ calls'[c].outcome # Pending => ~calls'[c].attached
       /\ (c \in DOMAIN calls /\ calls[c].outcome # Pending)
            => calls'[c].outcome = calls[c].outcome]_vars

\* The init call was rejected with MailboxNotFound; the AuthenticatorLoaded
\* emitted later for a setMailbox call did not reach it.
C25_Witness ==
  /\ Len(calls) >= 2 /\ last.act = "setMailboxThen"
  /\ calls[1].op = "init" /\ calls[1].outcome = Rejected("MailboxNotFound")
  /\ ~calls[1].attached
  /\ emitted[Len(emitted)].ev = "AuthenticatorLoaded"
  /\ calls[2].op = "setMailbox"
  /\ calls[2].outcome = Resolved(emitted[Len(emitted)].arg)

\* The state in which an input is valid (has a handler that processes it).
ValidIn(op) ==
  CASE op = "init" -> "init"
    [] op = "setMailbox" -> "unknownMailbox"
    [] op = "authenticate" -> "authenticating"

\* The calls whose input the state machine processed in the state where it is
\* valid, and those of them whose lookup chain has a continuation still due.
ProcessedValid ==
  {c \in DOMAIN calls : calls[c].handled.in = ValidIn(calls[c].op)}

InFlight == {t.call : t \in pending}

\* C26: with no hang-up, the state machine emits exactly one terminal event
\* for each input it processes in a state where the input is valid: the events
\* emitted so far are no more than those inputs, and no fewer than those of
\* them whose processing is complete.
C26_OneTerminalEventPerInput ==
  ~hungup =>
    /\ Len(emitted) <= Cardinality(ProcessedValid)
    /\ Len(emitted) >= Cardinality(ProcessedValid \ InFlight)

\* C27: whenever the session is in unknownMailbox its context is resolved,
\* and every mailbox lookup started by a setMailbox is made against a context
\* that a domain lookup found.
C27_UnknownMailboxHasContext ==
  /\ state = "unknownMailbox" => context # Undefined
  /\ \A t \in pending :
       t.op = "setMailbox"
         => /\ t.context # Undefined
            /\ \E d \in Domains : t.context = ContextGet(d)

\* C28: the session's context, when set, is the context a domain lookup of a
\* processed init found; its mailbox, when set, is the mailbox a mailbox lookup
\* of a processed init or setMailbox found for that call's number; and
\* whenever the session is in authenticating the mailbox is set, so the
\* password comparison reads a mailbox.
C28_ContextAndMailboxAreLookedUp ==
  /\ context # Undefined
       => \E i \in DOMAIN calls :
            /\ calls[i].op = "init" /\ calls[i].handled.in = "init"
            /\ context = InitContext(calls[i])
  /\ mailbox # Undefined
       => \E c \in DOMAIN calls :
            /\ calls[c].handled.in = ValidIn(calls[c].op)
            /\ \/ calls[c].op = "init" /\ mailbox = InitMailbox(calls[c])
               \/ /\ calls[c].op = "setMailbox"
                  /\ mailbox = MailboxGet(calls[c].args[1], mailbox.context)
                  /\ mailbox.context \in {context, Undefined}
  /\ state = "authenticating" => mailbox # Undefined
  /\ \A a \in DOMAIN calls :
       (calls[a].op = "authenticate" /\ calls[a].handled.in = "authenticating")
         => mailbox # Undefined

\* An authenticate has been compared with the password of the mailbox that
\* setMailbox resolved, and the session awaits another attempt.
C28_Witness ==
  /\ state = "authenticating" /\ last.act = "dispatch"
  /\ calls[last.call].op = "authenticate"
  /\ calls[last.call].handled.in = "authenticating"
  /\ calls[last.call].outcome = Rejected("InvalidPassword")
  /\ mailbox = MailboxGet("1234", context) /\ context # Undefined

\* C29: an Error event emitted by the state machine rejects, with its error,
\* every facade call pending at that moment, whatever its kind: every call
\* pending before a step whose first event is an Error is rejected with that
\* error after it, also the call whose input still waits in the queue.
C29_ErrorRejectsEveryPendingCall ==
  [][(Len(emitted') > Len(emitted)
        /\ emitted'[Len(emitted) + 1].ev = "Error")
       => \A c \in DOMAIN calls :
            calls[c].outcome = Pending
              => /\ calls'[c].outcome =
                      [k |-> "rejected", v |-> emitted'[Len(emitted) + 1].arg]
                 /\ ~calls'[c].attached]_vars

\* An authenticate made while init was in flight has been rejected with the
\* MailboxNotFound of init, and its input is still queued for authenticating.
C29_Witness ==
  /\ last.act = "initMailboxThen" /\ ~hungup /\ state = "unknownMailbox"
  /\ \E i, a \in DOMAIN calls :
       /\ calls[i].op = "init"
       /\ calls[i].outcome = Rejected("MailboxNotFound")
       /\ calls[a].op = "authenticate" /\ calls[a].calledIn = "init"
       /\ calls[a].outcome = Rejected("MailboxNotFound")
       /\ calls[a].handled = NotHandled
       /\ InQueue(eventQueue, a)

====
